---- MODULE Spec2Model ----
(***************************************************************************)
(* A model of lib/dependency.js (class Dependency): the specifier parser   *)
(* fromDependencyString, the constructor, the fetch strategies _pullGit    *)
(* and _pullIPFS, and the installer install().                             *)
(*                                                                         *)
(* Strings of the program are sequences of one-character strings, so that  *)
(* the regular expressions of the source are computed character by         *)
(* character.  The JavaScript value undefined and the empty string are     *)
(* both the empty sequence: the constructor maps both to '' (x || ''), and *)
(* every test the parser makes on them (version || path, !name) treats     *)
(* them alike.                                                             *)
(***************************************************************************)
EXTENDS Integers, Sequences, FiniteSets, TLC

VARIABLES
    input,      \* parser run: the raw string given
    parsed,     \* parser run: what the constructor / fromDependencyString gave
    again,      \* parser run: fromDependencyString(parsed.toString())
    pstep,      \* parser run: "start", "built" or "reparsed"
    fs,         \* the filesystem: path -> entry (a directory or a file)
    perms,      \* what the process may do in the working directory
    ipfs,       \* the IPFS objects the configured endpoint serves
    deps,       \* the Dependency instances and their fields
    last,       \* the record of the latest install() / pull() call
    pc          \* where each instance's install() stands, when two processes
                \* run it side by side: "ready", "checked" or "done"

vars == <<input, parsed, again, pstep, fs, perms, ipfs, deps, last, pc>>
parseVars == <<input, parsed, again, pstep>>
installVars == <<fs, perms, ipfs, deps, last, pc>>

----------------------------------------------------------------------------
(* Characters and character classes used by the regular expressions.       *)

UpperCase == <<"A","B","C","D","E","F","G","H","I","J","K","L","M",
               "N","O","P","Q","R","S","T","U","V","W","X","Y","Z">>
LowerCase == <<"a","b","c","d","e","f","g","h","i","j","k","l","m",
               "n","o","p","q","r","s","t","u","v","w","x","y","z">>
Digits == {"0","1","2","3","4","5","6","7","8","9"}

Range(s) == {s[k] : k \in DOMAIN s}

\* the /i flag: letters are compared after lower-casing
Lower(c) ==
    IF \E k \in DOMAIN UpperCase : UpperCase[k] = c
    THEN LowerCase[CHOOSE k \in DOMAIN UpperCase : UpperCase[k] = c]
    ELSE c

\* [a-z0-9] under /i, [A-Za-z0-9]
IsAlnum(c) == Lower(c) \in Range(LowerCase) \cup Digits

\* [a-f0-9] under /i
IsHex(c) == Lower(c) \in {"a","b","c","d","e","f"} \cup Digits

Prefix(s, n) == SubSeq(s, 1, n)
Suffix(s, n) == SubSeq(s, n + 1, Len(s))

EqCI(s, t) == Len(s) = Len(t) /\ \A k \in DOMAIN s : Lower(s[k]) = Lower(t[k])
StartsWithCI(s, t) == Len(s) >= Len(t) /\ EqCI(Prefix(s, Len(t)), t)
EndsWithCI(s, t) == Len(s) >= Len(t) /\ EqCI(Suffix(s, Len(s) - Len(t)), t)

Git == <<"g","i","t">>
DotGit == <<".","g","i","t">>
IpfsScheme == <<"i","p","f","s",":","/","/">>
Qm == <<"Q","m">>

----------------------------------------------------------------------------
(* Dependency: the fields of an instance, its predicates and constructor.  *)

packagesDirectory == <<"dapple_packages">>

\* hasGitPath without the /i flag
hasGitPath_caseSensitive(path) ==
    Len(path) >= Len(DotGit) /\ Suffix(path, Len(path) - Len(DotGit)) = DotGit

\* /\.git$/i.test(this.path)
hasGitPath(path) == EndsWithCI(path, DotGit)

\* /^ipfs:\/\/[A-Za-z0-9]+$/i.test(this.path)
hasIPFSPath(path) ==
    /\ StartsWithCI(path, IpfsScheme)
    /\ Len(path) > Len(IpfsScheme)
    /\ \A k \in (Len(IpfsScheme) + 1)..Len(path) : IsAlnum(path[k])

\* this.version !== ''
hasVersion(version) == version # <<>>

\* the value a failed construction or parse stands for: no instance
Failed(e) ==
    [err |-> e, path |-> <<>>, version |-> <<>>, name |-> <<>>,
     installedAt |-> <<>>, tmpDir |-> <<>>]

\* constructor (path, version, name)
Dependency(path, version, name) ==
    IF hasGitPath(path) /\ version = <<>>
    THEN Failed("MissingVersionError")
    ELSE [err |-> "", path |-> path, version |-> version, name |-> name,
          installedAt |-> <<>>, tmpDir |-> <<>>]

\* toString (): this.getPath() + this.getVersion()
toString(d) == d.path \o d.version

----------------------------------------------------------------------------
(* fromDependencyString: the two regular expressions and the IPFS rule.    *)

\* /^(.+.git)(?:@([a-z0-9]+))$/i : the positions k of an '@' that splits s
\* into group 1 = s[1..k-1] and group 2 = s[k+1..]; group 1 is one or more
\* characters, ANY character (the dot before git is not escaped), then git.
gitPathSplits(s) ==
    {k \in DOMAIN s :
        /\ s[k] = "@"
        /\ Len(s) > k
        /\ \A j \in (k + 1)..Len(s) : IsAlnum(s[j])
        /\ k - 1 >= 1 + 1 + Len(Git)
        /\ EndsWithCI(Prefix(s, k - 1), Git)}

gitPathRegexTest(s) == gitPathSplits(s) # {}

\* /^([^@#]+)?(?:@(.+)?)?$/ : the lengths n of group 1, a prefix free of
\* '@' and '#', after which the string ends or an '@' follows.
pathSplits(s) ==
    {n \in 0..Len(s) :
        /\ \A j \in 1..n : s[j] \notin {"@", "#"}
        /\ n = Len(s) \/ s[n + 1] = "@"}

\* /^@?(ipfs:\/\/)?Qm[A-Za-z0-9]+$/i
ipfsRegexTest(s) ==
    LET a == IF s # <<>> /\ s[1] = "@" THEN Suffix(s, 1) ELSE s
        b == IF StartsWithCI(a, IpfsScheme) THEN Suffix(a, Len(IpfsScheme)) ELSE a
    IN  /\ StartsWithCI(b, Qm)
        /\ Len(b) > Len(Qm)
        /\ \A k \in (Len(Qm) + 1)..Len(b) : IsAlnum(b[k])

\* s.replace(/^@?ipfs:\/\//i, '')
stripIpfsScheme(s) ==
    IF StartsWithCI(s, IpfsScheme) THEN Suffix(s, Len(IpfsScheme))
    ELSE IF s # <<>> /\ s[1] = "@" /\ StartsWithCI(Suffix(s, 1), IpfsScheme)
         THEN Suffix(s, 1 + Len(IpfsScheme))
         ELSE s

\* The outcome of fromDependencyString(path, name): the rule that decided
\* it, the arguments handed to the constructor, and the instance built.
Outcome(rule, path, version, name) ==
    [rule |-> rule, given |-> <<>>, path |-> path, version |-> version,
     name |-> name, dep |-> Dependency(path, version, name)]

fromDependencyString(path, name) ==
    IF gitPathRegexTest(path)
    THEN LET k == CHOOSE k \in gitPathSplits(path) : TRUE
         IN  Outcome("git", Prefix(path, k - 1), Suffix(path, k), name)
    ELSE IF pathSplits(path) = {}
    THEN \* exec returned null: pathPieces[2] is a property read of null
         [rule |-> "none", given |-> <<>>, path |-> <<>>, version |-> <<>>,
          name |-> name, dep |-> Failed("TypeError")]
    ELSE LET n == CHOOSE n \in pathSplits(path) :
                      \A m \in pathSplits(path) : m <= n
             p == Prefix(path, n)
             v == Suffix(path, n + 1)
             probe == IF v # <<>> THEN v ELSE p
         IN  IF ipfsRegexTest(probe)
             THEN LET nm == IF name # <<>> THEN name
                            ELSE IF v # <<>> THEN p ELSE <<>>
                      hash == stripIpfsScheme(probe)
                  IN  Outcome("ipfs", IpfsScheme \o hash, hash, nm)
             ELSE Outcome("generic", p, v, name)

\* pull (destination): the fetch strategy the path selects
pullDispatch(path) ==
    IF hasGitPath(path) THEN "git"
    ELSE IF hasIPFSPath(path) THEN "ipfs"
    ELSE "unrecognized"

----------------------------------------------------------------------------
(* The parser run: an input is drawn, the constructor or the parser is     *)
(* applied to it, and the result is printed and parsed again.              *)

MaxPieces == 4

\* the pieces raw strings are put together from: a letter, the separators,
\* the git suffix in both cases and with another character for its dot, and
\* the IPFS tokens
Fragments ==
    { <<"a">>, <<"@">>, <<"#">>,
      DotGit, <<".","G","I","T">>, <<"z","g","i","t">>,
      Qm, IpfsScheme }

RawStrings[k \in 0..(MaxPieces + 1)] ==
    IF k = 0 THEN {<<>>}
    ELSE RawStrings[k - 1] \cup
         {s \o f : s \in RawStrings[k - 1], f \in Fragments}

ExplicitNames == {<<>>, <<"n">>}
CtorVersions == {<<>>, <<"a">>}

NoOutcome ==
    [rule |-> "none", given |-> <<>>, path |-> <<>>, version |-> <<>>,
     name |-> <<>>, dep |-> Failed("none")]

InitParse ==
    /\ input \in RawStrings[MaxPieces]
    /\ parsed = NoOutcome
    /\ again = NoOutcome
    /\ pstep = "start"

\* new Dependency(path, version, name), called directly
Construct ==
    /\ pstep = "start"
    /\ \E v \in CtorVersions, name \in ExplicitNames :
           parsed' = Outcome("ctor", input, v, name)
    /\ pstep' = "built"
    /\ UNCHANGED <<input, again>>

\* Dependency.fromDependencyString(path, name)
Parse ==
    /\ pstep = "start"
    /\ \E name \in ExplicitNames :
           parsed' = [fromDependencyString(input, name) EXCEPT !.given = name]
    /\ pstep' = "built"
    /\ UNCHANGED <<input, again>>

\* Dependency.fromDependencyString(d.toString())
Reparse ==
    /\ pstep = "built"
    /\ parsed.rule # "ctor"
    /\ parsed.dep.err = ""
    /\ again' = fromDependencyString(toString(parsed.dep), <<>>)
    /\ pstep' = "reparsed"
    /\ UNCHANGED <<input, parsed>>

----------------------------------------------------------------------------
(* The filesystem.  A path is a sequence of components, a component is a   *)
(* string of the program; fs maps every existing path to its entry.        *)

DirEntry == [type |-> "dir", data |-> ""]
FileEntry(content) == [type |-> "file", data |-> content]

\* path.join(dir, name); joining the empty string gives dir itself
Join(dir, name) == IF name = <<>> THEN dir ELSE Append(dir, name)

Exists(f, p) == p \in DOMAIN f
IsDir(f, p) == Exists(f, p) /\ f[p].type = "dir"
IsFile(f, p) == Exists(f, p) /\ f[p].type = "file"

\* p is dir or lies below it
IsUnder(p, dir) == Len(p) >= Len(dir) /\ Prefix(p, Len(dir)) = dir
Below(f, dir) == {p \in DOMAIN f : IsUnder(p, dir) /\ p # dir}

\* the part of f at and below dir
Subtree(f, dir) == [p \in {q \in DOMAIN f : IsUnder(q, dir)} |-> f[p]]

Put(f, p, e) == [q \in DOMAIN f \cup {p} |-> IF q = p THEN e ELSE f[q]]

\* fs.ensureDirSync / mkdirs: p and its missing ancestors become directories
MkdirP(f, p) ==
    [q \in DOMAIN f \cup {Prefix(p, k) : k \in 1..Len(p)} |->
        IF q \in DOMAIN f THEN f[q] ELSE DirEntry]

\* fs.removeSync(dir)
Remove(f, dir) == [p \in {q \in DOMAIN f : ~IsUnder(q, dir)} |-> f[p]]

\* fs.emptyDirSync(dir): dir exists afterwards and holds nothing
EmptyDir(f, dir) == MkdirP(Remove(f, dir), dir)

\* where fs.copySync(src, dst) puts the entry at p
CopyTarget(p, src, dst) == dst \o Suffix(p, Len(src))

\* copySync cannot put a file where a directory is, nor the reverse
CopyConflicts(f, src, dst) ==
    {p \in DOMAIN Subtree(f, src) :
        /\ Exists(f, CopyTarget(p, src, dst))
        /\ f[CopyTarget(p, src, dst)].type # f[p].type}

\* fs.copySync(src, dst): the tree at src is written over whatever dst holds;
\* entries of dst that src does not name stay
CopyTree(f, src, dst) ==
    LET from == DOMAIN Subtree(f, src)
        to == {CopyTarget(p, src, dst) : p \in from}
    IN  [q \in DOMAIN f \cup to |->
            IF q \in to
            THEN f[CHOOSE p \in from : CopyTarget(p, src, dst) = q]
            ELSE f[q]]

----------------------------------------------------------------------------
(* A call in progress: the filesystem and instance as the call has left    *)
(* them so far, the error thrown (if any) and what the call did.           *)

Ctx(f, pm, d) ==
    [fs |-> f, perms |-> pm, dep |-> d, err |-> "", log |-> <<>>,
     detail |-> <<>>, dest |-> <<>>, pulled |-> FALSE, destBefore |-> <<>>]

\* throw new Error(...): the kind of error and the values its message names
Throw(c, e, detail) == [c EXCEPT !.err = e, !.detail = detail]
Logged(c, op, arg) == [c EXCEPT !.log = Append(@, [op |-> op, arg |-> arg])]

\* the operations that reach outside the process
IsProcess(ev) == ev.op = "exec"
IsNetwork(ev) == ev.op \in {"ls", "cat"}

----------------------------------------------------------------------------
(* GitFetch: _pullGit (target).                                            *)

\* this.getVersion().replace(/^@/, '')
stripAt(v) == IF v # <<>> /\ v[1] = "@" THEN Suffix(v, 1) ELSE v

\* the commit tested with the class of the parser's git rule, [a-z0-9]
isCommitHash_alnum(commit) ==
    commit # <<>> /\ \A k \in DOMAIN commit : IsAlnum(commit[k])

\* /^[a-f0-9]+$/i.test(commit)
isCommitHash(commit) ==
    commit # <<>> /\ \A k \in DOMAIN commit : IsHex(commit[k])

\* the four child_process.execSync calls, in program order
GitSteps == <<"clone", "reset", "submodule init", "submodule update">>

\* the marker of the work tree: which step last completed in target
GitMarker(target) == Append(target, <<".git">>)

\* git clone refuses a target that is a file or a directory holding anything
cloneCanRun(f, target) == ~IsFile(f, target) /\ Below(f, target) = {}

\* a file of the repository, checked out into the work tree by the clone
GitFile(target) == Append(target, <<"a">>)

\* what step k leaves behind when it exits with 0
gitStepEffect(f, target, k) ==
    Put(IF k = 1
        THEN Put(MkdirP(f, target), GitFile(target), FileEntry("G"))
        ELSE f,
        GitMarker(target), FileEntry(GitSteps[k]))

\* the steps with the partial work tree removed when one of them fails
RECURSIVE execSteps_rollsBack(_, _, _, _)
execSteps_rollsBack(c, target, k, fault) ==
    IF k > Len(GitSteps) THEN c
    ELSE LET spawned == Logged(c, "exec", GitSteps[k])
         IN  IF k = fault \/ (k = 1 /\ ~cloneCanRun(c.fs, target))
             THEN Throw([spawned EXCEPT !.fs = Remove(c.fs, target)],
                        "GitError", <<GitSteps[k]>>)
             ELSE execSteps_rollsBack(
                      [spawned EXCEPT !.fs = gitStepEffect(c.fs, target, k)],
                      target, k + 1, fault)

\* steps k.. of _pullGit; fault is the step the environment makes exit
\* non-zero (0: none).  execSync throws on a non-zero exit.
RECURSIVE execSteps(_, _, _, _)
execSteps(c, target, k, fault) ==
    IF k > Len(GitSteps) THEN c
    ELSE LET spawned == Logged(c, "exec", GitSteps[k])
         IN  IF k = fault \/ (k = 1 /\ ~cloneCanRun(c.fs, target))
             THEN Throw(spawned, "GitError", <<GitSteps[k]>>)
             ELSE execSteps(
                      [spawned EXCEPT !.fs = gitStepEffect(c.fs, target, k)],
                      target, k + 1, fault)

_pullGit(c, target, fault) ==
    IF ~hasVersion(c.dep.version)
    THEN Throw(c, "MissingVersionError", <<>>)
    ELSE LET commit == stripAt(c.dep.version)
         IN  IF ~isCommitHash(commit)
             THEN Throw(c, "InvalidCommitError", commit)
             ELSE execSteps(c, target, 1, fault)

----------------------------------------------------------------------------
(* IPFSFetch: _pullIPFS (target) and the recursive pullIPFS.               *)

\* let types = { dir: 1, file: 2 }
TypeDir == 1
TypeFile == 2

\* ls(hash) and cat(hash) answer for the objects the endpoint serves
lsAnswers(hash) == hash \in DOMAIN ipfs.links
catAnswers(hash) == hash \in DOMAIN ipfs.data

Step(op, at, hash) == [op |-> op, at |-> at, hash |-> hash]

\* The operations pullIPFS(hash, dest, type) performs, in program order,
\* when none of them throws; an unknown type ends them with the throw.
RECURSIVE pullIPFS(_, _, _)
RECURSIVE pullLinks(_, _, _)

Thrown(plan) == plan # <<>> /\ plan[Len(plan)].op = "throw"

\* the loop over the links stopping one short
RECURSIVE pullLinks_oneShort(_, _, _)
pullLinks_oneShort(links, dest, i) ==
    IF i >= Len(links) THEN <<>>
    ELSE LET one == pullIPFS(links[i].Hash, Join(dest, links[i].Name),
                             links[i].Type)
         IN  IF Thrown(one) THEN one
             ELSE one \o pullLinks_oneShort(links, dest, i + 1)

pullLinks(links, dest, i) ==
    IF i > Len(links) THEN <<>>
    ELSE LET one == pullIPFS(links[i].Hash, Join(dest, links[i].Name),
                             links[i].Type)
         IN  IF Thrown(one) THEN one
             ELSE one \o pullLinks(links, dest, i + 1)

\* pullIPFS passing over a node that is neither dir nor file
pullIPFS_skipsUnknown(hash, dest, type) ==
    IF type = TypeDir
    THEN <<Step("ensureDir", dest, hash), Step("ls", dest, hash)>> \o
         (IF lsAnswers(hash) THEN pullLinks(ipfs.links[hash], dest, 1)
          ELSE <<>>)
    ELSE IF type = TypeFile
    THEN <<Step("cat", dest, hash), Step("writeFile", dest, hash)>>
    ELSE <<>>

pullIPFS(hash, dest, type) ==
    IF type = TypeDir
    THEN <<Step("ensureDir", dest, hash), Step("ls", dest, hash)>> \o
         (IF lsAnswers(hash) THEN pullLinks(ipfs.links[hash], dest, 1)
          ELSE <<>>)
    ELSE IF type = TypeFile
    THEN <<Step("cat", dest, hash), Step("writeFile", dest, hash)>>
    ELSE <<Step("throw", dest, hash)>>

\* Running the operations from the k-th on.  fault counts down the network
\* requests: the request made when fault = 1 throws (0: none does).
RECURSIVE runIPFS(_, _, _, _, _)
runIPFS(c, plan, k, fault, rootHash) ==
    IF k > Len(plan) THEN c
    ELSE LET st == plan[k]
             done == Logged(c, st.op, IF st.op \in {"ls", "cat"}
                                      THEN st.hash ELSE st.at)
             rest == IF fault > 0 THEN fault - 1 ELSE 0
         IN  CASE st.op = "ensureDir" ->
                    IF IsFile(c.fs, st.at)
                    THEN Throw(done, "FsError", st.at)
                    ELSE runIPFS([done EXCEPT !.fs = MkdirP(c.fs, st.at)],
                                 plan, k + 1, fault, rootHash)
               [] st.op = "ls" ->
                    IF fault = 1 \/ ~lsAnswers(st.hash)
                    THEN Throw(done, "IPFSError", st.hash)
                    ELSE runIPFS(done, plan, k + 1, rest, rootHash)
               [] st.op = "cat" ->
                    IF fault = 1 \/ ~catAnswers(st.hash)
                    THEN Throw(done, "IPFSError", st.hash)
                    ELSE runIPFS(done, plan, k + 1, rest, rootHash)
               [] st.op = "writeFile" ->
                    IF IsDir(c.fs, st.at)
                    THEN Throw(done, "FsError", st.at)
                    ELSE runIPFS(
                             [done EXCEPT !.fs = Put(c.fs, st.at,
                                             FileEntry(ipfs.data[st.hash]))],
                             plan, k + 1, fault, rootHash)
               [] OTHER ->
                    Throw(c, "UnknownNodeTypeError", <<st.hash, rootHash>>)

\* this.getPath().replace(/^ipfs:\/\//i, '')
rootHashOf(path) ==
    IF StartsWithCI(path, IpfsScheme) THEN Suffix(path, Len(IpfsScheme))
    ELSE path

\* _pullIPFS making the target directory before it tests the connection
_pullIPFS_dirFirst(c, target, fault) ==
    LET rootHash == rootHashOf(c.dep.path)
        made == [Logged(c, "ensureDir", target) EXCEPT
                     !.fs = MkdirP(c.fs, target)]
        probed == Logged(made, "ls", rootHash)
    IN  IF fault = 1 \/ ~lsAnswers(rootHash)
        THEN Throw(probed, "IPFSConnectionError", <<>>)
        ELSE runIPFS(probed, pullIPFS(rootHash, target, TypeDir), 1,
                     IF fault > 0 THEN fault - 1 ELSE 0, rootHash)

_pullIPFS(c, target, fault) ==
    LET rootHash == rootHashOf(c.dep.path)
        probed == Logged(c, "ls", rootHash)
    IN  IF fault = 1 \/ ~lsAnswers(rootHash)
        THEN Throw(probed, "IPFSConnectionError", <<>>)
        ELSE runIPFS(probed, pullIPFS(rootHash, target, TypeDir), 1,
                     IF fault > 0 THEN fault - 1 ELSE 0, rootHash)

\* pull (destination)
pull(c, destination, fault) ==
    LET c1 == [c EXCEPT !.dest = destination, !.pulled = TRUE,
                        !.destBefore = Subtree(c.fs, destination)]
    IN  IF hasGitPath(c.dep.path) THEN _pullGit(c1, destination, fault)
        ELSE IF hasIPFSPath(c.dep.path) THEN _pullIPFS(c1, destination, fault)
        ELSE Throw(c1, "UnrecognizedSourceError", c.dep.path)

\* the external calls (processes, network requests) of a pull that meets no
\* fault: the points at which the environment can make one fail
FaultPoints(c, destination) ==
    LET clean == pull(c, destination, 0)
    IN  0..Cardinality({k \in DOMAIN clean.log :
                           IsProcess(clean.log[k]) \/ IsNetwork(clean.log[k])})

----------------------------------------------------------------------------
(* The installer: install () and its helpers.                              *)

PackagesPath == <<packagesDirectory>>

\* req.os.tmpdir()/dapple/packages, under which _getTmpDir names a directory
TmpBase == <<"tmp/dapple/packages">>

\* String(Math.random()).slice(2): the values the token can take
Tokens == {<<"1">>, <<"2">>}

\* _throwIfInstalled claiming the target in the same step: mkdir as the test
_throwIfInstalled_claims(c) ==
    LET target == Join(PackagesPath, c.dep.name)
    IN  IF Exists(c.fs, target)
        THEN Throw(c, "AlreadyInstalledError", <<c.dep.name>>)
        ELSE [c EXCEPT !.fs = MkdirP(c.fs, target)]

\* _throwIfInstalled consulting the instance's installedAt, not the directory
_throwIfInstalled_ownRecord(c) ==
    IF c.dep.installedAt # <<>>
    THEN Throw(c, "AlreadyInstalledError", <<c.dep.name>>)
    ELSE c

\* _throwIfInstalled (): fs.accessSync(target, fs.R_OK) succeeds on an
\* existing entry
_throwIfInstalled(c) ==
    LET target == Join(PackagesPath, c.dep.name)
    IN  IF Exists(c.fs, target)
        THEN Throw(c, "AlreadyInstalledError", <<c.dep.name>>)
        ELSE c

\* lines 55-64 with the failure of mkdirSync swallowed
accessOrCreate_swallows(c) ==
    IF ~Exists(c.fs, PackagesPath) /\ c.perms.cwd
    THEN [Logged(c, "mkdir", PackagesPath) EXCEPT
              !.fs = Put(c.fs, PackagesPath, DirEntry),
              !.perms = [c.perms EXCEPT !.pkg = TRUE]]
    ELSE c

\* install (), lines 55-64: accessSync(W_OK), else mkdirSync, else throw.
\* mkdirSync fails on an existing entry and in a directory not writable.
accessOrCreate(c) ==
    IF Exists(c.fs, PackagesPath) /\ c.perms.pkg THEN c
    ELSE IF ~Exists(c.fs, PackagesPath) /\ c.perms.cwd
    THEN [Logged(c, "mkdir", PackagesPath) EXCEPT
              !.fs = Put(c.fs, PackagesPath, DirEntry),
              !.perms = [c.perms EXCEPT !.pkg = TRUE]]
    ELSE Throw(c, "PathAccessError", PackagesPath)

\* _getTmpDir (): names and empties the scratch directory once per instance
_getTmpDir(c, token) ==
    IF c.dep.tmpDir = <<>>
    THEN LET dir == <<TmpBase, token>>
         IN  [Logged(c, "emptyDir", dir) EXCEPT
                  !.dep = [c.dep EXCEPT !.tmpDir = dir],
                  !.fs = EmptyDir(c.fs, dir)]
    ELSE c

\* what req.Workspace.atPackageRoot(tmpDir).dappfile.name can give: a name
\* (the empty string included), no name field at all, or an exception
ManifestNames == {<<"p">>, <<>>}
Manifests ==
    {[kind |-> "name", name |-> n] : n \in ManifestNames} \cup
    {[kind |-> "noName", name |-> <<>>], [kind |-> "throw", name |-> <<>>]}

\* the named branch recording installedAt before the pull
directInstall_recordFirst(c, fault) ==
    LET installedAt == Join(PackagesPath, c.dep.name)
    IN  pull([c EXCEPT !.dep = [c.dep EXCEPT !.installedAt = installedAt]],
             installedAt, fault)

\* install (), lines 66-71: the name is known
directInstall(c, fault) ==
    LET installedAt == Join(PackagesPath, c.dep.name)
        c1 == pull(c, installedAt, fault)
    IN  IF c1.err # "" THEN c1
        ELSE [c1 EXCEPT !.dep = [c1.dep EXCEPT !.installedAt = installedAt]]

\* the scratch branch with an empty catch around removeSync
finishScratch_swallows(c, m, copies, removes) ==
    LET tmpDir == c.dep.tmpDir
        installedAt == Join(PackagesPath, m.name)
        c1 == [c EXCEPT !.dep = [c.dep EXCEPT !.name = m.name]]
        c2 == Logged(c1, "copy", installedAt)
        c3 == [c2 EXCEPT !.fs = CopyTree(c.fs, tmpDir, installedAt),
                         !.dep = [c1.dep EXCEPT !.installedAt = installedAt]]
        c4 == Logged(c3, "remove", tmpDir)
    IN  IF m.kind = "throw" THEN Throw(c, "ManifestError", <<>>)
        ELSE IF m.kind = "noName" THEN Throw(c1, "TypeError", <<>>)
        ELSE IF ~copies \/ CopyConflicts(c.fs, tmpDir, installedAt) # {}
        THEN Throw([c2 EXCEPT !.fs = MkdirP(c.fs, installedAt)], "CopyError",
                   installedAt)
        ELSE IF removes THEN [c4 EXCEPT !.fs = Remove(c3.fs, tmpDir)]
        ELSE c4

\* the scratch branch undoing the install when the removal fails
finishScratch_rollsBack(c, m, copies, removes) ==
    LET tmpDir == c.dep.tmpDir
        installedAt == Join(PackagesPath, m.name)
        c1 == [c EXCEPT !.dep = [c.dep EXCEPT !.name = m.name]]
        c2 == Logged(c1, "copy", installedAt)
        c3 == [c2 EXCEPT !.fs = CopyTree(c.fs, tmpDir, installedAt),
                         !.dep = [c1.dep EXCEPT !.installedAt = installedAt]]
        c4 == Logged(c3, "remove", tmpDir)
    IN  IF m.kind = "throw" THEN Throw(c, "ManifestError", <<>>)
        ELSE IF m.kind = "noName" THEN Throw(c1, "TypeError", <<>>)
        ELSE IF ~copies \/ CopyConflicts(c.fs, tmpDir, installedAt) # {}
        THEN Throw([c2 EXCEPT !.fs = MkdirP(c.fs, installedAt)], "CopyError",
                   installedAt)
        ELSE IF removes THEN [c4 EXCEPT !.fs = Remove(c3.fs, tmpDir)]
        ELSE Throw([c4 EXCEPT !.fs = c.fs, !.dep = c.dep], "CleanupError",
                   <<m.name, installedAt, tmpDir>>)

\* install (), lines 75-86, after the pull into the scratch directory:
\* m is the manifest read, copies and removes whether copySync and
\* removeSync succeed
finishScratch(c, m, copies, removes) ==
    LET tmpDir == c.dep.tmpDir
    IN
    IF m.kind = "throw" THEN Throw(c, "ManifestError", <<>>)
    ELSE
    LET c1 == [c EXCEPT !.dep = [c.dep EXCEPT !.name = m.name]]
        installedAt == Join(PackagesPath, m.name)
    IN
    IF m.kind = "noName"
    THEN \* path.join(this.packagesDirectory, undefined) throws
         Throw(c1, "TypeError", <<>>)
    ELSE
    LET c2 == Logged(c1, "copy", installedAt)
    IN
    IF ~copies \/ CopyConflicts(c.fs, tmpDir, installedAt) # {}
    THEN Throw([c2 EXCEPT !.fs = MkdirP(c.fs, installedAt)], "CopyError",
               installedAt)
    ELSE
    LET c3 == [c2 EXCEPT !.fs = CopyTree(c.fs, tmpDir, installedAt),
                         !.dep = [c1.dep EXCEPT !.installedAt = installedAt]]
        c4 == Logged(c3, "remove", tmpDir)
    IN
    IF removes THEN [c4 EXCEPT !.fs = Remove(c3.fs, tmpDir)]
    ELSE Throw(c4, "CleanupError", <<m.name, installedAt, tmpDir>>)

----------------------------------------------------------------------------
(* The installer run: instances are installed, one call at a time.         *)

Insts == {"d1", "d2"}

\* the calls made in one run
MaxCalls == 3

NoCall ==
    [count |-> 0, op |-> "none", inst |-> "", err |-> "", detail |-> <<>>,
     log |-> <<>>,
     dest |-> <<>>, pulled |-> FALSE, destBefore |-> <<>>,
     nameBefore |-> <<>>]

\* the call on instance i ends as c says
Return(op, i, c) ==
    /\ fs' = c.fs
    /\ perms' = c.perms
    /\ deps' = [deps EXCEPT ![i] = c.dep]
    /\ last' = [count |-> last.count + 1, op |-> op, inst |-> i,
                err |-> c.err, detail |-> c.detail, log |-> c.log, dest |-> c.dest, pulled |-> c.pulled,
                destBefore |-> c.destBefore, nameBefore |-> deps[i].name]
    /\ UNCHANGED <<ipfs, parseVars>>

\* deps[i].install(): the whole call, with what the environment decides
\* along the way (the random token, the external call that fails, the
\* manifest read, whether the copy and the removal succeed)
Install(i) ==
    LET c0 == Ctx(fs, perms, deps[i])
        named == c0.dep.name # <<>>
        c1 == IF named THEN _throwIfInstalled(c0) ELSE c0
        c2 == IF c1.err = "" THEN accessOrCreate(c1) ELSE c1
    IN  /\ last.count < MaxCalls
        /\ UNCHANGED pc
        /\ IF c2.err # "" THEN Return("install", i, c2)
           ELSE IF named
           THEN \E fault \in FaultPoints(c2, Join(PackagesPath, c2.dep.name)) :
                    Return("install", i, directInstall(c2, fault))
           ELSE \E token \in IF c2.dep.tmpDir = <<>> THEN Tokens ELSE {<<>>} :
                    LET c3 == _getTmpDir(c2, token)
                    IN  \E fault \in FaultPoints(c3, c3.dep.tmpDir) :
                            LET c4 == pull(c3, c3.dep.tmpDir, fault)
                            IN  IF c4.err # "" THEN Return("install", i, c4)
                                ELSE \E m \in Manifests :
                                     \E copies \in IF m.kind = "name"
                                                   THEN BOOLEAN ELSE {FALSE} :
                                     \E removes \in IF copies
                                                    THEN BOOLEAN ELSE {FALSE} :
                                         Return("install", i,
                                             finishScratch(c4, m, copies,
                                                           removes))

----------------------------------------------------------------------------
(* Two processes installing side by side.  Each runs install() of its own  *)
(* instance on the shared working directory; the operating system          *)
(* interleaves them between the file system calls.  A process is "ready"   *)
(* before its call, "checked" once lines 51-64 are behind it, and "done"   *)
(* when the call has returned or thrown.                                   *)

Ready == [i \in Insts |-> "ready"]

\* install (), lines 51-64, of a named instance: the already-installed
\* check and the package directory
InstallCheck(i) ==
    LET c0 == Ctx(fs, perms, deps[i])
        c1 == _throwIfInstalled(c0)
        c2 == IF c1.err = "" THEN accessOrCreate(c1) ELSE c1
    IN  /\ pc[i] = "ready"
        /\ deps[i].name # <<>>
        /\ IF c2.err # ""
           THEN /\ Return("install", i, c2)
                /\ pc' = [pc EXCEPT ![i] = "done"]
           ELSE /\ fs' = c2.fs
                /\ perms' = c2.perms
                /\ pc' = [pc EXCEPT ![i] = "checked"]
                /\ UNCHANGED <<deps, last, ipfs, parseVars>>

\* install (), lines 66-71, of a named instance: the pull and the record
InstallFetch(i) ==
    LET c0 == Ctx(fs, perms, deps[i])
    IN  /\ pc[i] = "checked"
        /\ pc' = [pc EXCEPT ![i] = "done"]
        /\ \E fault \in FaultPoints(c0, Join(PackagesPath, deps[i].name)) :
               Return("install", i, directInstall(c0, fault))

\* deps[i].pull(destination), called on its own
Checkout == <<<<"checkout">>>>

Pull(i) ==
    LET c0 == Ctx(fs, perms, deps[i])
    IN  /\ last.count < 1
        /\ UNCHANGED pc
        /\ \E fault \in FaultPoints(c0, Checkout) :
               Return("pull", i, pull(c0, Checkout, fault))

----------------------------------------------------------------------------
(* The IPFS objects: content hashes, and the trees an endpoint can serve.  *)

RootHash == <<"Q","m","r">>
SubHash == <<"Q","m","s">>
XHash == <<"Q","m","x">>
YHash == <<"Q","m","y">>
OddHash == <<"Q","m","o">>

\* a type tag ls can report that is neither dir nor file
UnknownTypes == {4}

Link(hash, name, type) == [Hash |-> hash, Name |-> name, Type |-> type]

Store(rootLinks, subLinks) ==
    [links |-> (RootHash :> rootLinks) @@ (SubHash :> subLinks),
     data |-> (XHash :> "X") @@ (YHash :> "Y")]

\* an endpoint that is down or does not know the root hash
Unreachable == [links |-> <<>>, data |-> <<>>]

MaxLinks == 2
LinkNames == {<<"a">>, <<"b">>, <<"c">>}

Target(hash, type) == [Hash |-> hash, Type |-> type]
OddTargets == {Target(OddHash, t) : t \in UnknownTypes}

\* the link lists of at most n links to the targets, under distinct names
RECURSIVE LinkSeqs(_, _)
LinkSeqs(targets, n) ==
    IF n = 0 THEN {<<>>}
    ELSE LET shorter == LinkSeqs(targets, n - 1)
         IN  shorter \cup
             {Append(s, Link(t.Hash, nm, t.Type)) :
                 <<s, t, nm>> \in
                     {x \in shorter \X targets \X LinkNames :
                         /\ Len(x[1]) = n - 1
                         /\ \A k \in DOMAIN x[1] : x[1][k].Name # x[3]}}

LinksTo(links, hash) == \E k \in DOMAIN links : links[k].Hash = hash

\* the trees of depth two; the subdirectory has links only where the root
\* refers to it
Trees ==
    {Store(r, s) :
        <<r, s>> \in
            {x \in LinkSeqs({Target(SubHash, TypeDir), Target(XHash, TypeFile)}
                                \cup OddTargets, MaxLinks)
                   \X LinkSeqs({Target(YHash, TypeFile)} \cup OddTargets, MaxLinks) :
                LinksTo(x[1], SubHash) \/ x[2] = <<>>}}

\* the tree the installer run fetches: root(dir) -> {a(file "X"), b(file "Y")}
InstallTree ==
    Store(<<Link(XHash, <<"a">>, TypeFile), Link(YHash, <<"b">>, TypeFile)>>,
          <<>>)

InstallStores == {InstallTree}

----------------------------------------------------------------------------
(* The specifications.                                                      *)

NoFiles == <<>>

IdleParse ==
    /\ input = <<>>
    /\ parsed = NoOutcome
    /\ again = NoOutcome
    /\ pstep = "idle"

IdleInstall ==
    /\ fs = NoFiles
    /\ perms = [cwd |-> TRUE, pkg |-> FALSE]
    /\ ipfs = Unreachable
    /\ deps = [i \in Insts |-> Failed("none")]
    /\ last = NoCall
    /\ pc = Ready

\* the descriptors installed: a pinned git source, a git source whose
\* commit is alphanumeric but not hexadecimal, one whose version carries a
\* leading '@', one built with "z!" for a version, an IPFS root, and a path
\* that is neither
InstallInputs ==
    { <<"a">> \o DotGit \o <<"@","a","b">>,
      <<"a">> \o DotGit \o <<"@","z","z">>,
      <<"a">> \o DotGit \o <<"@","@","a","b">>,
      <<"@">> \o RootHash,
      <<"x">> }
InstallNames == {<<>>, <<"p">>}

InstallDescriptors ==
    {d \in {fromDependencyString(s, n).dep :
                s \in InstallInputs, n \in InstallNames}
           \cup {Dependency(<<"a">> \o DotGit, <<"z","!">>, n) :
                    n \in InstallNames} :
        d.err = ""}

\* the second instance is an IPFS root, named or not
SecondDescriptors ==
    {fromDependencyString(<<"@">> \o RootHash, n).dep : n \in InstallNames}

\* the working directory before the first call: dapple_packages is there
\* or not, and the process may or may not write to it and to its parent
InitFiles ==
    {<<NoFiles, [cwd |-> w, pkg |-> FALSE]>> : w \in BOOLEAN} \cup
    {<<Put(NoFiles, PackagesPath, DirEntry), [cwd |-> TRUE, pkg |-> w]>> :
        w \in BOOLEAN}

Init ==
    /\ IdleParse
    /\ \E w \in InitFiles : fs = w[1] /\ perms = w[2]
    /\ ipfs \in InstallStores
    /\ deps \in {f \in [Insts -> InstallDescriptors] :
                    f["d2"] \in SecondDescriptors}
    /\ last = NoCall
    /\ pc = Ready

Next == \E i \in Insts : Install(i)

Spec == Init /\ [][Next]_vars

\* pulls on their own, over every tree
InitPull ==
    /\ IdleParse
    /\ fs \in {NoFiles, Put(NoFiles, Checkout, DirEntry)}
    /\ perms = [cwd |-> TRUE, pkg |-> FALSE]
    /\ ipfs \in Trees \cup {Unreachable}
    /\ deps = [i \in Insts |-> fromDependencyString(<<"@">> \o RootHash, <<>>).dep]
    /\ last = NoCall
    /\ pc = Ready

NextPull == \E i \in Insts : Pull(i)

SpecPull == InitPull /\ [][NextPull]_vars

\* two processes, each installing a dependency under the name p
RaceDescriptors ==
    {d \in InstallDescriptors : d.name # <<>>}

InitRace ==
    /\ IdleParse
    /\ \E w \in InitFiles : fs = w[1] /\ perms = w[2]
    /\ ipfs \in InstallStores
    /\ deps \in [Insts -> RaceDescriptors]
    /\ last = NoCall
    /\ pc = Ready

NextRace == \E i \in Insts : InstallCheck(i) \/ InstallFetch(i)

SpecRace == InitRace /\ [][NextRace]_vars

\* the parser run
InitParseRun == InitParse /\ IdleInstall

NextParse ==
    \/ Construct /\ UNCHANGED installVars
    \/ Parse /\ UNCHANGED installVars
    \/ Reparse /\ UNCHANGED installVars

SpecParse == InitParseRun /\ [][NextParse]_vars

----------------------------------------------------------------------------
(* Properties of the parser and the constructor (SpecParse).               *)

Built == pstep \in {"built", "reparsed"}

\* the text ends in .git, whatever the case of its letters
EndsInDotGit(s) ==
    /\ Len(s) >= 4
    /\ s[Len(s) - 3] = "."
    /\ s[Len(s) - 2] \in {"g", "G"}
    /\ s[Len(s) - 1] \in {"i", "I"}
    /\ s[Len(s)] \in {"t", "T"}

\* C3: no descriptor with a git source location and an empty version is
\* ever built: the constructor, called directly or by the parser, fails
\* with MissingVersionError when the source location it is given ends in
\* .git (in any case) and the version is absent or empty; so every
\* descriptor built has a version whenever hasGitPath() holds.
C3_NoUnpinnedGit ==
    \A o \in {parsed, again} :
        /\ EndsInDotGit(o.path) /\ o.version = <<>> /\ o.rule # "none"
               => o.dep.err = "MissingVersionError"
        /\ o.dep.err = "" /\ hasGitPath(o.dep.path)
               => hasVersion(o.dep.version)

\* C3 witness: the parser has split off an upper-case .GIT source location
\* without a version, and construction has failed
C3_Witness ==
    /\ pstep = "built"
    /\ parsed.rule = "generic"
    /\ EndsInDotGit(parsed.path)
    /\ parsed.path[Len(parsed.path)] = "T"
    /\ parsed.version = <<>>
    /\ parsed.dep.err = "MissingVersionError"

\* C7: round trip: a descriptor parsed from a git-form or generic-form
\* string, printed with toString() and parsed again, gives a descriptor
\* with the same source location and the same version.
C7_RoundTrip ==
    pstep = "reparsed" /\ parsed.rule \in {"git", "generic"}
        => /\ again.dep.err = ""
           /\ again.dep.path = parsed.dep.path
           /\ again.dep.version = parsed.dep.version

\* C8: parsing is total: fromDependencyString returns a descriptor or fails
\* with ParseError or MissingVersionError, never with any other fault.
C8_ParsingTotal ==
    Built /\ parsed.rule # "ctor"
        => parsed.dep.err \in {"", "ParseError", "MissingVersionError"}

\* C9: every input the git rule accepts is split into a source location
\* that ends in .git and the version after the '@'; the descriptor
\* satisfies hasGitPath() and pull() dispatches it to GitFetch.
C9_GitRuleSplitsGitPath ==
    Built /\ parsed.rule = "git"
        => /\ parsed.dep.err = ""
           /\ EndsInDotGit(parsed.dep.path)
           /\ input = parsed.dep.path \o <<"@">> \o parsed.dep.version
           /\ hasGitPath(parsed.dep.path)
           /\ pullDispatch(parsed.dep.path) = "git"

\* the bare hash: Qm and alphanumerics, no '@' and no ipfs:// before it
BareHash(h) ==
    /\ Len(h) > 2
    /\ h[1] \in {"Q", "q"} /\ h[2] \in {"M", "m"}
    /\ \A k \in 3..Len(h) : IsAlnum(h[k])

\* C10: whenever the parsed version (or else the path) matches the IPFS
\* pattern, the descriptor's source location is ipfs://<hash> with the bare
\* hash, hasIPFSPath() holds and pull() dispatches to IPFSFetch; the name
\* is the explicit name if given, and empty for an input without a
\* separate version.
C10_IpfsNormalised ==
    Built /\ parsed.rule = "ipfs"
        => /\ parsed.dep.err = ""
           /\ Prefix(parsed.dep.path, Len(IpfsScheme)) = IpfsScheme
           /\ BareHash(Suffix(parsed.dep.path, Len(IpfsScheme)))
           /\ hasIPFSPath(parsed.dep.path)
           /\ pullDispatch(parsed.dep.path) = "ipfs"
           /\ parsed.given # <<>> => parsed.dep.name = parsed.given
           /\ parsed.given = <<>> /\ "@" \notin Range(input)
                  => parsed.dep.name = <<>>

----------------------------------------------------------------------------
(* Properties of the installer (Spec) and of the fetch (SpecPull).         *)

\* the step just taken is a call on instance i
Called(i) == last'.count = last.count + 1 /\ last'.inst = i

Spawned(log) == {k \in DOMAIN log : IsProcess(log[k])}

\* C1: an install() of a descriptor with a known name N, made while
\* dapple_packages/N is present, fails with AlreadyInstalledError before
\* anything else: no pull is started, no process is spawned, no IPFS
\* request is made and the filesystem is not written.
C1_SecondInstallFailsFirst ==
    [][\A i \in Insts :
          (/\ Called(i)
           /\ deps[i].name # <<>>
           /\ Exists(fs, Join(PackagesPath, deps[i].name)))
          => /\ last'.err = "AlreadyInstalledError"
             /\ last'.detail = <<deps[i].name>>
             /\ ~last'.pulled
             /\ last'.log = <<>>
             /\ fs' = fs
             /\ deps' = deps]_vars

\* C1 witness: an install() has succeeded at dapple_packages/N, and a later
\* install() of the name N by another instance has been refused
C1_Witness ==
    /\ last.op = "install"
    /\ last.err = "AlreadyInstalledError"
    /\ \E j \in Insts \ {last.inst} :
           /\ deps[j].installedAt = Join(PackagesPath, last.nameBefore)
           /\ Exists(fs, deps[j].installedAt)

\* C2: in every install path a name collision is a hard failure and never a
\* merge: when the final name, given up front or read from the manifest,
\* already exists in the package directory (here: as the installed copy of
\* another instance), install() fails (the claim says: with
\* AlreadyInstalledError) and the existing subdirectory is unchanged.
C2_CollisionNeverMerges ==
    [][\A i \in Insts :
          (/\ Called(i)
           /\ deps'[i].name # <<>>
           /\ deps[i].name \in {<<>>, deps'[i].name}
           /\ Exists(fs, Join(PackagesPath, deps'[i].name))
           /\ \E j \in Insts \ {i} :
                  deps[j].installedAt = Join(PackagesPath, deps'[i].name))
          => /\ last'.err # ""
             /\ Subtree(fs', Join(PackagesPath, deps'[i].name))
                    = Subtree(fs, Join(PackagesPath, deps'[i].name))]_vars

\* hexadecimal digits only, and at least one
OnlyHexDigits(s) ==
    /\ s # <<>>
    /\ \A k \in DOMAIN s :
           s[k] \in {"0","1","2","3","4","5","6","7","8","9",
                     "a","b","c","d","e","f","A","B","C","D","E","F"}

\* the version without one leading '@'
AfterAt(v) == IF v # <<>> /\ Head(v) = "@" THEN Tail(v) ELSE v

LastDep == deps[last.inst]

\* C4, as claimed: a pull of a git descriptor whose pinned version is not
\* entirely hexadecimal fails with InvalidCommitError, and no external
\* process has been spawned.
C4_NonHexVersionRejected ==
    (/\ last.pulled
     /\ EndsInDotGit(LastDep.path)
     /\ ~OnlyHexDigits(LastDep.version))
    => /\ last.err = "InvalidCommitError"
       /\ Spawned(last.log) = {}

\* C4, amended: a call on a git descriptor whose pinned version, after one
\* leading '@' is removed, is not entirely hexadecimal fails without any
\* external process having been spawned, and with InvalidCommitError once
\* it reaches pull.
C4_NonHexCommitRejected ==
    (/\ last.count > 0
     /\ EndsInDotGit(LastDep.path)
     /\ ~OnlyHexDigits(AfterAt(LastDep.version)))
    => /\ last.err # ""
       /\ Spawned(last.log) = {}
       /\ last.pulled => last.err = "InvalidCommitError"

\* C4 witness: the pull of a.git pinned to the alphanumeric commit zz has
\* been refused
C4_Witness ==
    /\ last.pulled
    /\ EndsInDotGit(LastDep.path)
    /\ LastDep.version = <<"z", "z">>
    /\ last.err = "InvalidCommitError"

\* C5, as claimed: when the connectivity probe throws, the fetch fails with
\* IPFSConnectionError and the destination handed to pull has not been
\* created, be it dapple_packages/<name> or the scratch directory.
C5_ProbeFailureNoDestination ==
    last.err = "IPFSConnectionError"
        => /\ last.pulled
           /\ ~Exists(fs, last.dest)

\* C5, amended: when the connectivity probe throws, the fetch fails with
\* IPFSConnectionError and the pull has written nothing: the probe is the
\* last thing the call did, and the destination is as it was handed to
\* pull.  The DirectInstall destination dapple_packages/<name> has not been
\* created; the scratch destination exists and is empty when _getTmpDir
\* created it in this call.
C5_ProbeFailureWritesNothing ==
    last.err = "IPFSConnectionError"
        => /\ last.pulled
           /\ Subtree(fs, last.dest) = last.destBefore
           /\ last.log[Len(last.log)]
                  = [op |-> "ls", arg |-> Suffix(LastDep.path, Len(IpfsScheme))]
           /\ last.nameBefore # <<>> => ~Exists(fs, last.dest)
           /\ (\E k \in DOMAIN last.log : last.log[k].op = "emptyDir")
                  => /\ last.dest = LastDep.tmpDir
                     /\ IsDir(fs, last.dest)
                     /\ Below(fs, last.dest) = {}

\* C5 witness: the probe has thrown in a DirectInstall
C5_Witness ==
    /\ last.err = "IPFSConnectionError"
    /\ last.nameBefore # <<>>
    /\ last.dest = Join(PackagesPath, last.nameBefore)

\* the entries the tree below hash is mirrored to, at the path at and below
RECURSIVE Mirror(_, _)
Mirror(hash, at) ==
    {<<at, DirEntry>>} \cup
    UNION {IF l.Type = TypeDir THEN Mirror(l.Hash, Append(at, l.Name))
           ELSE IF l.Type = TypeFile
           THEN {<<Append(at, l.Name), FileEntry(ipfs.data[l.Hash])>>}
           ELSE {} : l \in Range(ipfs.links[hash])}

Entries(f) == {<<p, f[p]>> : p \in DOMAIN f}

\* every node of the tree below hash is a dir or a file
RECURSIVE DirsAndFiles(_)
DirsAndFiles(hash) ==
    \A l \in Range(ipfs.links[hash]) :
        \/ l.Type = TypeFile
        \/ l.Type = TypeDir /\ DirsAndFiles(l.Hash)

\* the object the names lead to, from hash down
RECURSIVE HashAt(_, _)
HashAt(hash, names) ==
    IF names = <<>> THEN hash
    ELSE HashAt((CHOOSE l \in Range(ipfs.links[hash]) :
                     l.Name = Head(names)).Hash, Tail(names))

LinkIndex(hash, name) ==
    CHOOSE k \in DOMAIN ipfs.links[hash] : ipfs.links[hash][k].Name = name

\* depth first, in link order: p comes before q when p is an ancestor of q,
\* or when, where they part, p follows the earlier link
ComesBefore(p, q) ==
    \/ IsUnder(q, p)
    \/ /\ ~IsUnder(p, q)
       /\ LET k == CHOOSE k \in 1..Len(p) :
                       p[k] # q[k] /\ Prefix(p, k - 1) = Prefix(q, k - 1)
              dir == HashAt(RootHash, Prefix(p, k - 1))
          IN  LinkIndex(dir, p[k]) < LinkIndex(dir, q[k])

IsVisit(ev) == ev.op \in {"ensureDir", "writeFile"}
Visits == SelectSeq(last.log, IsVisit)
Relative(p) == Suffix(p, Len(Checkout))

\* C6: a successful IPFS pull of a tree of dirs and files into an empty
\* destination leaves exactly the mirror of the tree: a directory per dir
\* node, a file per file node with the node's content, at the path of the
\* child names from the root, and nothing else; the nodes are visited once
\* each, depth first in link order.
C6_PullMirrorsTree ==
    (/\ last.op = "pull"
     /\ last.err = ""
     /\ Below(last.destBefore, Checkout) = {}
     /\ DirsAndFiles(RootHash))
    => /\ Entries(Subtree(fs, Checkout)) = Mirror(RootHash, Checkout)
       /\ Len(Visits) = Cardinality(Mirror(RootHash, Checkout))
       /\ \A i, j \in DOMAIN Visits :
              i < j => ComesBefore(Relative(Visits[i].arg),
                                   Relative(Visits[j].arg))

\* C6 witness: a tree with a file after a subdirectory that holds a file
\* has been pulled
C6_Witness ==
    /\ last.op = "pull"
    /\ last.err = ""
    /\ Len(ipfs.links[RootHash]) = 2
    /\ ipfs.links[RootHash][1].Type = TypeDir
    /\ ipfs.links[RootHash][2].Type = TypeFile
    /\ \E p \in DOMAIN fs : Len(p) = 3 /\ fs[p] = FileEntry("Y")
    /\ \E p \in DOMAIN fs : Len(p) = 2 /\ fs[p] = FileEntry("X")

----------------------------------------------------------------------------
(* Properties of what install() records and leaves behind.                 *)

\* the tree the descriptor d fetches is present at d.installedAt in f: the
\* work tree after the last git step, or the mirror of the IPFS root
FetchedTreeAt(d, f) ==
    IF hasGitPath(d.path)
    THEN /\ IsFile(f, GitMarker(d.installedAt))
         /\ f[GitMarker(d.installedAt)].data = GitSteps[Len(GitSteps)]
         /\ IsFile(f, GitFile(d.installedAt))
         /\ f[GitFile(d.installedAt)].data = "G"
    ELSE Mirror(RootHash, d.installedAt) \subseteq Entries(f)

C12_CleanupErrorKeepsInstall ==
    [][\A i \in Insts :
          Called(i) =>
              /\ last'.err = "CleanupError"
                     => /\ deps[i].name = <<>>
                        /\ last'.detail = <<deps'[i].name,
                                            deps'[i].installedAt,
                                            deps'[i].tmpDir>>
                        /\ deps'[i].installedAt
                               = Join(PackagesPath, deps'[i].name)
                        /\ deps'[i].tmpDir = last'.dest
                        /\ last'.dest # <<>>
                        /\ IsDir(fs', deps'[i].installedAt)
                        /\ FetchedTreeAt(deps'[i], fs')
              /\ last'.err \notin {"", "CleanupError"}
                     /\ deps[i].installedAt = <<>>
                     => deps'[i].installedAt = <<>>]_vars

\* C12 witness: the removal has failed after the tree was copied to
\* dapple_packages/p
C12_Witness ==
    /\ last.op = "install"
    /\ last.err = "CleanupError"
    /\ LastDep.name = <<"p">>
    /\ LastDep.installedAt = Join(PackagesPath, <<"p">>)
    /\ Exists(fs, LastDep.tmpDir)

\* C13: a scratch directory is owned by one installation attempt, so every
\* pull into a scratch directory starts from an empty directory; here for
\* the attempts of one instance, whose scratch directory no other instance
\* has drawn.
C13_ScratchStartsEmpty ==
    (/\ last.op = "install"
     /\ last.pulled
     /\ last.nameBefore = <<>>
     /\ last.dest = LastDep.tmpDir
     /\ \A j \in Insts \ {last.inst} : deps[j].tmpDir # LastDep.tmpDir)
    => Below(last.destBefore, last.dest) = {}

----------------------------------------------------------------------------
(* Properties of two installs running side by side (SpecRace).             *)

\* C14: the already-installed check and the creation of the target are not
\* one step: while one install of the name N stands between its check and
\* its pull, the check of a second install of N passes as well (no
\* AlreadyInstalledError), and each of them then pulls into
\* dapple_packages/N.
C14_BothPassTheCheck ==
    [][\A i \in Insts :
          /\ (/\ pc[i] = "ready" /\ pc'[i] # "ready"
              /\ \E j \in Insts \ {i} :
                     pc[j] = "checked" /\ deps[j].name = deps[i].name)
                 => /\ pc'[i] = "checked"
                    /\ last' = last
          /\ pc[i] = "checked" /\ pc'[i] = "done"
                 => /\ last'.inst = i
                    /\ last'.pulled
                    /\ last'.err # "AlreadyInstalledError"
                    /\ last'.dest = Join(PackagesPath, deps[i].name)]_vars

\* C14 witness: both installs of the name p have passed the check, and
\* dapple_packages/p does not exist yet
C14_Witness ==
    /\ \A i \in Insts : pc[i] = "checked" /\ deps[i].name = <<"p">>
    /\ ~Exists(fs, Join(PackagesPath, <<"p">>))
    /\ last = NoCall

----------------------------------------------------------------------------
(* Properties of the fetch strategies inside install() (Spec).             *)

\* the external processes of the latest call, in the order they were spawned
Execs == SelectSeq(last.log, IsProcess)

\* C15: GitFetch spawns clone, reset, submodule init, submodule update in
\* this order, each after the one before it succeeded and none twice; a
\* failing step ends the call with the fetch error, no step follows it,
\* and the destination is as the last successful step left it (as it was
\* before the pull when the clone failed).
C15_GitStepsInOrder ==
    (last.pulled /\ hasGitPath(LastDep.path))
    => /\ Len(Execs) <= Len(GitSteps)
       /\ \A k \in DOMAIN Execs : Execs[k].arg = GitSteps[k]
       /\ last.err = "GitError"
              => /\ Execs # <<>>
                 /\ last.log[Len(last.log)] = Execs[Len(Execs)]
                 /\ last.detail = <<GitSteps[Len(Execs)]>>
                 /\ IF Len(Execs) = 1
                    THEN Subtree(fs, last.dest) = last.destBefore
                    ELSE /\ IsFile(fs, GitMarker(last.dest))
                         /\ fs[GitMarker(last.dest)].data
                                = GitSteps[Len(Execs) - 1]
       /\ last.err \notin {"GitError", "InvalidCommitError",
                           "MissingVersionError"}
              => Len(Execs) = Len(GitSteps)

\* C15 witness: submodule init has failed, and the work tree is the one
\* the reset left
C15_Witness ==
    /\ last.pulled
    /\ last.err = "GitError"
    /\ last.detail = <<"submodule init">>
    /\ IsFile(fs, GitMarker(last.dest))
    /\ fs[GitMarker(last.dest)].data = "reset"

\* the package directory can neither be written to nor be created
NoPackagesAccess(f, pm) ==
    \/ ~Exists(f, PackagesPath) /\ ~pm.cwd
    \/ Exists(f, PackagesPath) /\ ~pm.pkg

\* C16: install() pulls only where the package directory exists: when the
\* write-access check fails and the creation fails too (directory missing
\* and not creatable, or present and not writable), install() fails with
\* PathAccessError naming the directory, without a pull, a scratch
\* directory, a process or a network request, and in no other case.
C16_NoPullWithoutPackagesDir ==
    [][\A i \in Insts :
          (Called(i) /\ last'.op = "install")
          => /\ last'.pulled => IsDir(fs', PackagesPath) /\ perms'.pkg
             /\ NoPackagesAccess(fs, perms)
                    => /\ last'.err = "PathAccessError"
                       /\ last'.detail = PackagesPath
                       /\ ~last'.pulled
                       /\ last'.log = <<>>
                       /\ fs' = fs
                       /\ deps' = deps
             /\ last'.err = "PathAccessError"
                    => NoPackagesAccess(fs, perms)]_vars

\* C16 witness: dapple_packages is present but not writable, and install()
\* has failed with PathAccessError
C16_Witness ==
    /\ last.op = "install"
    /\ last.err = "PathAccessError"
    /\ IsDir(fs, PackagesPath)
    /\ ~perms.pkg

----------------------------------------------------------------------------
(* Properties of the IPFS walk on its own (SpecPull), continued.           *)

Node(at, hash, type) == [at |-> at, hash |-> hash, type |-> type]

\* the nodes of the tree below (hash, type) in depth-first order, parents
\* first, children in link order, each with the path it is mirrored to
RECURSIVE Preorder(_, _, _)
RECURSIVE PreorderFrom(_, _, _)
Preorder(hash, at, type) ==
    <<Node(at, hash, type)>> \o
    (IF type = TypeDir /\ hash \in DOMAIN ipfs.links
     THEN PreorderFrom(ipfs.links[hash], at, 1) ELSE <<>>)

PreorderFrom(links, at, i) ==
    IF i > Len(links) THEN <<>>
    ELSE Preorder(links[i].Hash, Append(at, links[i].Name), links[i].Type)
             \o PreorderFrom(links, at, i + 1)

Nodes == Preorder(RootHash, Checkout, TypeDir)
IsOdd(n) == n.type \notin {TypeDir, TypeFile}
OddNodes == {k \in DOMAIN Nodes : IsOdd(Nodes[k])}
FirstOdd == CHOOSE k \in OddNodes : \A j \in OddNodes : k <= j

\* C17: a node that is neither dir nor file stops the walk at once with
\* UnknownNodeTypeError carrying the node's hash and the root hash: the
\* nodes before it in depth-first order have been written and stay, and
\* neither it nor any node after it is fetched or written.  A walk that
\* no other failure ended before has ended so whenever there is such a
\* node.
C17_UnknownTypeStopsWalk ==
    /\ last.err = "UnknownNodeTypeError"
           => /\ OddNodes # {}
              /\ last.detail = <<Nodes[FirstOdd].hash, RootHash>>
              /\ Len(Visits) = FirstOdd - 1
              /\ \A k \in DOMAIN Visits : Visits[k].arg = Nodes[k].at
              /\ DOMAIN Subtree(fs, Checkout)
                     = {Nodes[k].at : k \in 1..(FirstOdd - 1)}
              /\ \A k \in 1..(FirstOdd - 1) :
                     fs[Nodes[k].at] =
                         IF Nodes[k].type = TypeDir THEN DirEntry
                         ELSE FileEntry(ipfs.data[Nodes[k].hash])
              /\ \A k \in DOMAIN last.log :
                     IsNetwork(last.log[k])
                         => last.log[k].arg # Nodes[FirstOdd].hash
    /\ (/\ last.op = "pull"
        /\ lsAnswers(RootHash)
        /\ OddNodes # {}
        /\ last.err \notin {"IPFSConnectionError", "IPFSError", "FsError"})
           => last.err = "UnknownNodeTypeError"

\* C17 witness: the unknown node is in the subdirectory the root links to
\* first; the subdirectory has been made, the file the root links to after
\* it has not been written
C17_Witness ==
    /\ last.err = "UnknownNodeTypeError"
    /\ Len(ipfs.links[RootHash]) = 2
    /\ ipfs.links[RootHash][1].Type = TypeDir
    /\ ipfs.links[RootHash][2].Type = TypeFile
    /\ IsDir(fs, Append(Checkout, ipfs.links[RootHash][1].Name))
    /\ ~Exists(fs, Append(Checkout, ipfs.links[RootHash][2].Name))

----------------------------------------------------------------------------
(* Properties of the scratch directory and of the package directory (Spec). *)

\* the latest call was an install() that took the scratch branch
ScratchCall ==
    last.op = "install" /\ last.nameBefore = <<>> /\ LastDep.tmpDir # <<>>

Removals == {k \in DOMAIN last.log : last.log[k].op = "remove"}

\* C18, as claimed: whenever an install() of an unnamed dependency ends
\* with its scratch directory still on disk, the error reports the scratch
\* path for manual cleanup; after a normal return the scratch directory is
\* gone.
C18_LeftoverScratchReported ==
    ScratchCall
        => /\ Exists(fs, LastDep.tmpDir)
                  => /\ last.err = "CleanupError"
                     /\ last.detail = <<LastDep.name, LastDep.installedAt,
                                        LastDep.tmpDir>>
           /\ last.err = "" => ~Exists(fs, LastDep.tmpDir)

\* C18, amended: a removal of the scratch directory that fails is reported
\* with CleanupError naming the scratch path, and after a normal return
\* the scratch directory is gone; an install() that fails before the
\* removal (fetch, manifest or copy failure) attempts no removal, so what
\* it put into the scratch directory stays there with no CleanupError.
C18_FailedRemovalReported ==
    ScratchCall
        => /\ last.err = "" => Removals # {} /\ ~Exists(fs, LastDep.tmpDir)
           /\ last.err = "CleanupError"
                  => /\ Removals # {}
                     /\ last.detail = <<LastDep.name, LastDep.installedAt,
                                        LastDep.tmpDir>>
           /\ Removals # {} /\ Exists(fs, LastDep.tmpDir)
                  => last.err = "CleanupError"
           /\ last.err \notin {"", "CleanupError"}
                  => /\ Removals = {}
                     /\ last.pulled => last.dest = LastDep.tmpDir

\* C18 witness: an unnamed dependency has been installed as p, the call
\* has returned normally and its scratch directory is gone
C18_Witness ==
    /\ ScratchCall
    /\ last.err = ""
    /\ LastDep.name = <<"p">>
    /\ Removals # {}
    /\ ~Exists(fs, LastDep.tmpDir)

\* C19: every subdirectory of the package directory is the complete result
\* of an install whose fetch finished; so AlreadyInstalledError is raised
\* for a name only if an install of that name has completed, and a
\* DirectInstall whose pull failed part-way does not make the retry fail
\* with AlreadyInstalledError.
C19_OnlyInstalledNamesRefused ==
    (last.op = "install" /\ last.err = "AlreadyInstalledError")
        => \E j \in Insts :
               /\ deps[j].installedAt = Join(PackagesPath, last.nameBefore)
               /\ FetchedTreeAt(deps[j], fs)

\* C20: whenever installedAt is set it is dapple_packages/<name> for the
\* non-empty name getName() gives, a strict subdirectory of the package
\* directory: whatever name the manifest reader returns, the empty one
\* included, install() never records the package directory itself.
C20_InstalledAtIsSubdirectory ==
    \A i \in Insts :
        deps[i].installedAt # <<>>
            => /\ deps[i].name # <<>>
               /\ deps[i].installedAt = Append(PackagesPath, deps[i].name)
               /\ deps[i].installedAt # PackagesPath

====
